---- MODULE Spec2Model ----
(***************************************************************************)
(* cos-customizer: sealing and sizing of the OEM partition.                *)
(*                                                                         *)
(*   tools/seal_oem_partition.go   SealOEMPartition, veritysetup,          *)
(*                                 appendDMEntryToGRUB                     *)
(*   cmd/finish_image_build.go     FinishImageBuild.validate, validateOEM, *)
(*                                 FinishImageBuild.Execute                *)
(*                                                                         *)
(* A Go string is modelled as the sequence of its runes; every rune is a   *)
(* one-character TLA+ string, except the two runes that are not ASCII,     *)
(* which are written by their code points.  Byte offsets (strings.Index,   *)
(* len, slicing) and rune offsets ([]rune indexing) are kept apart.        *)
(***************************************************************************)
EXTENDS Integers, Sequences, FiniteSets, TLC

VARIABLES
    grub,       \* content of <grubPath>/grub.cfg, a string
    reads,      \* the contents ioutil.ReadFile returned, one per call that read
    calls,      \* the calls of appendDMEntryToGRUB so far: arguments and result
    f,          \* the FinishImageBuild command: its flags, and flags.NArg()
    buildConfig,\* the config.Build that loadConfigs loads and validateOEM adjusts
    pc,         \* the statement FinishImageBuild.Execute is at
    exitStatus, \* what Execute returned, "" while it runs
    logged,     \* the error Execute logged
    oemCalls,   \* the calls of validateOEM: the config passed and the error returned
    sealPc,     \* the statement SealOEMPartition is at
    fsSize4K,   \* the argument oemFSSize4K of SealOEMPartition
    images,     \* the docker images loaded
    mounted,    \* the partitions mounted
    verityCalls,\* the calls of veritysetup: the tool's output and what was returned
    uuid,       \* what partutil.GetPartUUID returned
    sealErr,    \* what SealOEMPartition returned
    steps,      \* the functions SealOEMPartition called so far, in order
    table,      \* the partition table of the disk: start and size of each partition
    sfdiskRuns, \* the runs of sfdisk: its input, its arguments and whether it succeeded
    moveCalls,  \* the calls of MovePartition: the arguments and the error returned
    extPc,      \* the statement ExtendOEMPartition is at
    extArgs,    \* the arguments of ExtendOEMPartition
    extErr      \* what ExtendOEMPartition returned

grubVars == <<grub, reads, calls>>
buildVars == <<f, buildConfig, pc, exitStatus, logged, oemCalls>>
sealVars == <<sealPc, fsSize4K, images, mounted, verityCalls, uuid, sealErr, steps>>
extendVars == <<table, sfdiskRuns, moveCalls, extPc, extArgs, extErr>>
vars == <<grub, reads, calls, f, buildConfig, pc, exitStatus, logged, oemCalls,
          sealPc, fsSize4K, images, mounted, verityCalls, uuid, sealErr, steps,
          table, sfdiskRuns, moveCalls, extPc, extArgs, extErr>>

\* No partition is being moved.
NoExtend ==
    /\ table = <<>>
    /\ sfdiskRuns = <<>>
    /\ moveCalls = <<>>
    /\ extPc = ""
    /\ extArgs = <<>>
    /\ extErr = ""

\* SealOEMPartition is not running.
NoSeal ==
    /\ sealPc = ""
    /\ fsSize4K = 0
    /\ images = {}
    /\ mounted = {}
    /\ verityCalls = <<>>
    /\ uuid = <<>>
    /\ sealErr = ""
    /\ steps = <<>>

(***************************************************************************)
(* Strings                                                                 *)
(***************************************************************************)

\* A rune outside ASCII (two bytes in UTF-8) and utf8.RuneError (three bytes).
NonASCII == "U+00E9"
RuneError == "U+FFFD"

\* The number of bytes of a rune's UTF-8 encoding.
RuneLen(r) == IF r = NonASCII THEN 2 ELSE IF r = RuneError THEN 3 ELSE 1

\* len(s): the number of bytes of a string.
ByteLen(s) ==
    LET n[i \in 0..Len(s)] == IF i = 0 THEN 0 ELSE n[i - 1] + RuneLen(s[i])
    IN  n[Len(s)]

\* n copies of rune r.
Repeat(r, n) == [i \in 1..n |-> r]

\* The rune positions (1-based) at which sub occurs in s.
Occurrences(s, sub) ==
    {i \in 1..(Len(s) - Len(sub) + 1) : \A j \in 1..Len(sub) : s[i + j - 1] = sub[j]}

\* strings.Contains(s, sub)
Contains(s, sub) == Occurrences(s, sub) # {}

\* strings.HasPrefix(s, prefix)
HasPrefix(s, prefix) ==
    Len(s) >= Len(prefix) /\ SubSeq(s, 1, Len(prefix)) = prefix

\* The least element of a non-empty set of integers.
Min(S) == CHOOSE i \in S : \A j \in S : i <= j

\* strings.Index(s, sub): the byte offset of the first occurrence, -1 if none.
Index(s, sub) ==
    IF Contains(s, sub)
    THEN ByteLen(SubSeq(s, 1, Min(Occurrences(s, sub)) - 1))
    ELSE -1

\* strings.Split(s, sep) for a separator of one rune: the pieces between the
\* separators, Len(cuts) - 1 of them, empty pieces included.
Split(s, sep) ==
    LET at == {i \in 1..Len(s) : s[i] = sep}
        cuts == [k \in 0..(Cardinality(at) + 1) |->
                    IF k = 0 THEN 0
                    ELSE IF k = Cardinality(at) + 1 THEN Len(s) + 1
                    ELSE CHOOSE i \in at : Cardinality({j \in at : j < i}) = k - 1]
    IN  [k \in 1..(Cardinality(at) + 1) |-> SubSeq(s, cuts[k - 1] + 1, cuts[k] - 1)]

\* strings.Join(elems, sep) for a separator of one rune.
RECURSIVE Join(_, _)
Join(elems, sep) ==
    IF elems = <<>> THEN <<>>
    ELSE IF Len(elems) = 1 THEN elems[1]
    ELSE elems[1] \o <<sep>> \o Join(Tail(elems), sep)

\* []rune(s[:len(s)-1]) for a non-empty s: the last byte is cut off; what is
\* left of a rune of several bytes is invalid UTF-8, which the conversion
\* turns into one utf8.RuneError per byte.
DropLastByte(s) ==
    SubSeq(s, 1, Len(s) - 1) \o Repeat(RuneError, RuneLen(s[Len(s)]) - 1)

\* The decimal digits of a number, as fmt's %d and strconv.FormatUint print it.
Digit(d) == <<"0", "1", "2", "3", "4", "5", "6", "7", "8", "9">>[d + 1]

RECURSIVE FormatUint(_)
FormatUint(n) ==
    IF n < 10 THEN <<Digit(n)>> ELSE FormatUint(n \div 10) \o <<Digit(n % 10)>>

NL == "\n"
Comma == ","
Quote == "\""

(***************************************************************************)
(* appendDMEntryToGRUB                                                     *)
(***************************************************************************)

\* const devName in SealOEMPartition
devName == <<"o", "e", "m", "r", "o", "o", "t">>

\* from 4K blocks to 512B sectors: oemFSSize4K << 3.  The block counts are
\* below 2^52 (a uint64 byte count >> 12), so the shift does not wrap.
oemFSSizeSector(oemFSSize4K) == oemFSSize4K * 8

\* fmt.Sprintf("%s none ro 1, 0 %d verity payload=PARTUUID=%s hashtree=PARTUUID=%s
\*              hashstart=%d alg=sha256 root_hexdigest=%s salt=%s\"", ...)
entryString(name, partUUID, h, s, oemFSSize4K) ==
    name
    \o <<" ", "n", "o", "n", "e", " ", "r", "o", " ", "1", ",", " ", "0", " ">>
    \o FormatUint(oemFSSizeSector(oemFSSize4K))
    \o <<" ", "v", "e", "r", "i", "t", "y", " ", "p", "a", "y", "l", "o", "a",
         "d", "=", "P", "A", "R", "T", "U", "U", "I", "D", "=">>
    \o partUUID
    \o <<" ", "h", "a", "s", "h", "t", "r", "e", "e", "=", "P", "A", "R", "T",
         "U", "U", "I", "D", "=">>
    \o partUUID
    \o <<" ", "h", "a", "s", "h", "s", "t", "a", "r", "t", "=">>
    \o FormatUint(oemFSSizeSector(oemFSSize4K))
    \o <<" ", "a", "l", "g", "=", "s", "h", "a", "2", "5", "6", " ", "r", "o",
         "o", "t", "_", "h", "e", "x", "d", "i", "g", "e", "s", "t", "=">>
    \o h
    \o <<" ", "s", "a", "l", "t", "=">>
    \o s
    \o <<Quote>>

DmKey == <<"d", "m", "=">>

\* A test that takes "dm" without the "=" for the parameter.
IsDmLineLoose(line) == Contains(line, <<"d", "m">>)

\* The loop's test: strings.Contains(line, "dm=")
IsDmLine(line) == Contains(line, DmKey)

\* The rune written over lineBuf[startPos+4].
CountRune == "2"

\* The 1-based position of lineBuf[startPos+4], startPos a byte offset.
CountPos(line) == Index(line, DmKey) + 4 + 1

\* lineBuf[startPos+4] is out of range: the run panics.
LinePanics(line) == CountPos(line) > Len(DropLastByte(line))

\* The loop body for a line that contains "dm=".
PatchLine(line, entry) ==
    LET lineBuf == [DropLastByte(line) EXCEPT ![CountPos(line)] = CountRune]
    IN  Join(Split(lineBuf, Comma) \o <<entry>>, Comma)

\* lines[idx] after the loop, for every idx.
PatchedLines(lines, entry) ==
    [idx \in 1..Len(lines) |->
        IF IsDmLine(lines[idx]) THEN PatchLine(lines[idx], entry) ELSE lines[idx]]

\* The loop panics at the first line whose lineBuf is too short.
ContentPanics(content) ==
    \E idx \in 1..Len(Split(content, NL)) :
        LET line == Split(content, NL)[idx]
        IN  IsDmLine(line) /\ LinePanics(line)

\* The new content of grub.cfg.
PatchedContent(content, entry) ==
    Join(PatchedLines(Split(content, NL), entry), NL)

\* What a failed ioutil.WriteFile may leave behind: the file as it was (it could
\* not be opened) or a truncated file (opened with O_TRUNC, then the write failed).
FailedWrite(content) == {content, <<>>}

\* One call.  res is what the call does: "readErr" (ReadFile fails), "panic",
\* "writeErr" (WriteFile fails) or "ok".
appendDMEntryToGRUB(name, partUUID, h, s, oemFSSize4K, res) ==
    LET entry == entryString(name, partUUID, h, s, oemFSSize4K)
        args == [name |-> name, partUUID |-> partUUID, hash |-> h, salt |-> s,
                 oemFSSize4K |-> oemFSSize4K]
    IN  /\ \/ /\ res = "readErr"
              /\ UNCHANGED <<grub, reads>>
           \/ /\ res = "panic"
              /\ ContentPanics(grub)
              /\ reads' = Append(reads, grub)
              /\ UNCHANGED grub
           \/ /\ res = "writeErr"
              /\ ~ContentPanics(grub)
              /\ reads' = Append(reads, grub)
              /\ grub' \in FailedWrite(grub)
           \/ /\ res = "ok"
              /\ ~ContentPanics(grub)
              /\ reads' = Append(reads, grub)
              /\ grub' = PatchedContent(grub, entry)
        /\ calls' = Append(calls, [args |-> args, res |-> res])

(***************************************************************************)
(* grub.cfg files and the arguments of a call                              *)
(***************************************************************************)

\* The most lines of a grub.cfg, and the most calls on one grub.cfg.
MaxLines == 2
MaxCalls == 2

\* One row of a dm table: a device with its one target, "<device>,<target>".
Row == <<"v", " ", "1", ",", "0", " ", "x">>

\* dm="<count> <rows>" with k rows.
DmTable(count, k) ==
    DmKey \o <<Quote>> \o FormatUint(count) \o <<" ">>
    \o Join([i \in 1..k |-> Row], Comma) \o <<Quote>>

\* The counts of the well-formed kernel command lines.
Counts == {1, 2, 10}

\* Kernel command lines "<text> dm=..." as line 175 describes them, with a
\* table of one, two or ten rows.
KernelLines == {<<"r", "o", " ">> \o DmTable(k, k) : k \in Counts}

\* Other lines that contain "dm=": the table at the start of the line, after a
\* rune that is not ASCII, after a parameter whose name ends in "dm", followed
\* by another parameter, and an empty table.
OtherDmLines ==
    { DmTable(1, 1),
      <<NonASCII, " ">> \o DmTable(1, 1),
      <<"r", "d", "m", "=", "1", " ">> \o DmTable(1, 1),
      <<"r", "o", " ">> \o DmTable(1, 1) \o <<" ", "r">>,
      DmKey \o <<Quote, Quote>> }

\* Lines without "dm=".
PlainLines == { <<>>, <<"}">>, <<"r", "o", "o", "t", "=", "d", "m", "-", "0">> }

GrubLines == KernelLines \cup OtherDmLines \cup PlainLines

\* The files of at most MaxLines lines.
GrubFiles ==
    {Join(ls, NL) : ls \in UNION {[1..n -> GrubLines] : n \in 1..MaxLines}}

PartUUIDs == { <<"8", "A">> }
Hashes == { <<"d", "6">> }
Salts == { <<"9", "c">> }
BlockCounts == {256, 4096}

(***************************************************************************)
(* appendDMEntryToGRUB called on a grub.cfg, again and again               *)
(***************************************************************************)

\* FinishImageBuild is not running.
NoBuild ==
    /\ f = <<>>
    /\ buildConfig = <<>>
    /\ pc = ""
    /\ exitStatus = ""
    /\ logged = <<>>
    /\ oemCalls = <<>>

InitGrub ==
    /\ grub \in GrubFiles
    /\ reads = <<>>
    /\ calls = <<>>
    /\ NoBuild
    /\ NoSeal
    /\ NoExtend

\* A failed call ends the run of the tool: SealOEMPartition returns the error,
\* a panic ends the process.  The tool is run again only after it succeeded.
Patch ==
    /\ Len(calls) < MaxCalls
    /\ \A i \in 1..Len(calls) : calls[i].res = "ok"
    /\ \E partUUID \in PartUUIDs, h \in Hashes, s \in Salts, n \in BlockCounts,
          res \in {"readErr", "panic", "writeErr", "ok"} :
            appendDMEntryToGRUB(devName, partUUID, h, s, n, res)
    /\ UNCHANGED <<buildVars, sealVars, extendVars>>

NextGrub == Patch

SpecGrub == InitGrub /\ [][NextGrub]_vars

(***************************************************************************)
(* Reading a kernel command line: its dm table, count and rows             *)
(***************************************************************************)

\* dm=" opens the table; the count is the token that follows it.
TableKey == DmKey \o <<Quote>>
HasTable(line) == Contains(line, TableKey)
CountFrom(line) == Min(Occurrences(line, TableKey)) + Len(TableKey)
CountEnd(line) ==
    Min({i \in CountFrom(line)..(Len(line) + 1) :
            i = Len(line) + 1 \/ line[i] \in {" ", Quote, Comma}}) - 1
CountToken(line) == SubSeq(line, CountFrom(line), CountEnd(line))
BeforeCount(line) == SubSeq(line, 1, CountFrom(line) - 1)
AfterCount(line) == SubSeq(line, CountEnd(line) + 1, Len(line))

IsDigit(r) == \E d \in 0..9 : Digit(d) = r
IsNumber(tok) == tok # <<>> /\ \A i \in 1..Len(tok) : IsDigit(tok[i])
DigitValue(r) == CHOOSE d \in 0..9 : Digit(d) = r
NumberOf(tok) ==
    LET v[i \in 0..Len(tok)] == IF i = 0 THEN 0 ELSE 10 * v[i - 1] + DigitValue(tok[i])
    IN  v[Len(tok)]

\* A line with a dm table that has a count.
HasCount(line) == HasTable(line) /\ IsNumber(CountToken(line))
CountOf(line) == NumberOf(CountToken(line))

\* The rows on the line: a row is "<device>,<target>", rows are joined by commas.
RowsOf(line) == Len(Split(AfterCount(line), Comma)) \div 2

\* The line ends in the quote that closes its table.
EndsTable(line) ==
    /\ HasTable(line)
    /\ Len(line) >= CountFrom(line)
    /\ line[Len(line)] = Quote
    /\ \A i \in CountFrom(line)..(Len(line) - 1) : line[i] # Quote

\* The last call patched the file: what it read, what it wrote, its arguments.
Patched == calls # <<>> /\ calls[Len(calls)].res = "ok"
LinesRead == Split(reads[Len(reads)], NL)
LinesWritten == Split(grub, NL)
LastArgs == calls[Len(calls)].args

\* C1: after a patch every line with a dm table has its count raised by one,
\* which is the number of rows now on a line whose count was its number of rows.
C1_CountIncremented ==
    Patched =>
        /\ Len(LinesWritten) = Len(LinesRead)
        /\ \A idx \in 1..Len(LinesRead) :
              HasCount(LinesRead[idx]) =>
                  /\ HasCount(LinesWritten[idx])
                  /\ CountOf(LinesWritten[idx]) = CountOf(LinesRead[idx]) + 1
                  /\ (CountOf(LinesRead[idx]) = RowsOf(LinesRead[idx])
                        => CountOf(LinesWritten[idx]) = RowsOf(LinesWritten[idx]))

\* C2: two patches with the same arguments of a line with count 1 and one row
\* leave three rows on the line and the count 3.
C2_SecondRunCountsThree ==
    (/\ Len(calls) = 2
     /\ calls[1].res = "ok" /\ calls[2].res = "ok"
     /\ calls[1].args = calls[2].args) =>
        \A idx \in 1..Len(Split(reads[1], NL)) :
            LET line == Split(reads[1], NL)[idx]
            IN  (HasCount(line) /\ EndsTable(line)
                 /\ CountOf(line) = 1 /\ RowsOf(line) = 1) =>
                    /\ HasCount(LinesWritten[idx])
                    /\ RowsOf(LinesWritten[idx]) = 3
                    /\ CountOf(LinesWritten[idx]) = 3

\* C3: a patch keeps the number and the order of the lines, and every line
\* without "dm=" as it was read.
C3_OtherLinesUntouched ==
    Patched =>
        /\ Len(LinesWritten) = Len(LinesRead)
        /\ \A idx \in 1..Len(LinesRead) :
              Occurrences(LinesRead[idx], <<"d", "m", "=">>) = {}
                  => LinesWritten[idx] = LinesRead[idx]

\* A patch of a file that holds a line without "dm=" that is not empty and a
\* line with "dm=", which the patch changed.
C3_Witness ==
    /\ Patched
    /\ \E i, j \in 1..Len(LinesRead) :
          /\ Occurrences(LinesRead[i], <<"d", "m", "=">>) = {}
          /\ LinesRead[i] # <<>>
          /\ Occurrences(LinesRead[j], <<"d", "m", "=">>) # {}
          /\ LinesWritten[j] # LinesRead[j]

\* The row the patch is to add, for a size of S sectors.
NewRow(name, partUUID, h, s, S) ==
    name
    \o <<" ", "n", "o", "n", "e", " ", "r", "o", " ", "1", ",", " ", "0", " ">>
    \o FormatUint(S)
    \o <<" ", "v", "e", "r", "i", "t", "y", " ", "p", "a", "y", "l", "o", "a",
         "d", "=", "P", "A", "R", "T", "U", "U", "I", "D", "=">>
    \o partUUID
    \o <<" ", "h", "a", "s", "h", "t", "r", "e", "e", "=", "P", "A", "R", "T",
         "U", "U", "I", "D", "=">>
    \o partUUID
    \o <<" ", "h", "a", "s", "h", "s", "t", "a", "r", "t", "=">>
    \o FormatUint(S)
    \o <<" ", "a", "l", "g", "=", "s", "h", "a", "2", "5", "6", " ", "r", "o",
         "o", "t", "_", "h", "e", "x", "d", "i", "g", "e", "s", "t", "=">>
    \o h
    \o <<" ", "s", "a", "l", "t", "=">>
    \o s
    \o <<Quote>>

\* The line keeps the text before its count and its rows, and ends in a comma
\* and the new row; its count is some number.
RowAppended(old, new, row) ==
    /\ HasCount(new)
    /\ BeforeCount(new) = BeforeCount(old)
    /\ AfterCount(new) =
          SubSeq(AfterCount(old), 1, Len(AfterCount(old)) - 1) \o <<Comma>> \o row

\* C4: whenever appendDMEntryToGRUB runs on a file with a line that ends in the
\* quote closing its dm table, it writes that line with the text before the
\* count and the rows kept, then a comma and the new row of N x 8 sectors.
C4_RowAppended ==
    \A c \in 1..Len(calls) :
        calls[c].res # "readErr" =>
            \A idx \in 1..Len(Split(reads[c], NL)) :
                LET line == Split(reads[c], NL)[idx]
                    a == calls[c].args
                IN  (HasCount(line) /\ EndsTable(line)) =>
                        /\ calls[c].res # "panic"
                        /\ (c = Len(calls) /\ calls[c].res = "ok") =>
                              RowAppended(line, LinesWritten[idx],
                                          NewRow(a.name, a.partUUID, a.hash, a.salt,
                                                 a.oemFSSize4K * 8))

\* The same for the kernel command lines of line 175 alone: ASCII text, the
\* table the only "dm=" of the line, a table that is not empty.
IsASCII(line) == \A i \in 1..Len(line) : RuneLen(line[i]) = 1

C4_KernelLineRowAppended ==
    Patched =>
        \A idx \in 1..Len(LinesRead) :
            LET line == LinesRead[idx]
            IN  (/\ HasCount(line) /\ EndsTable(line) /\ IsASCII(line)
                 /\ Occurrences(line, <<"d", "m", "=">>)
                      = Occurrences(line, TableKey)) =>
                    RowAppended(line, LinesWritten[idx],
                                NewRow(LastArgs.name, LastArgs.partUUID, LastArgs.hash,
                                       LastArgs.salt, LastArgs.oemFSSize4K * 8))

(***************************************************************************)
(* Sizes                                                                   *)
(*                                                                         *)
(* A uint64 byte count is kept in two parts, bytes = hi * 2^20 + lo with   *)
(* 0 <= lo < 2^20, since TLC's integers are 32 bits wide.  The sizes of    *)
(* the model are far below 2^63 bytes, where doubling a uint64 would wrap. *)
(***************************************************************************)

MiB == 1048576

U64(hi, lo) == [hi |-> hi, lo |-> lo]
FromInt(n) == U64(n \div MiB, n % MiB)

\* x << 1
Double(x) == U64(2 * x.hi + (2 * x.lo) \div MiB, (2 * x.lo) % MiB)

\* x << k
RECURSIVE ShiftLeft(_, _)
ShiftLeft(x, k) == IF k = 0 THEN x ELSE ShiftLeft(Double(x), k - 1)

\* x >> 20 and x >> 12, as numbers
Shr20(x) == x.hi
Shr12(x) == x.hi * 256 + x.lo \div 4096

\* x - 1 in uint64, for a number x: 0 - 1 wraps to 2^64 - 1, written Wrapped.
Wrapped == -1
Uint64Dec(x) == IF x = 0 THEN Wrapped ELSE x - 1

\* uint64(d) < x for an int d and a small x: a negative d converts to
\* 2^64 + d, which is above every x of the model.
Uint64Less(d, x) == IF d < 0 THEN FALSE ELSE d < x

\* A size string "<num><unit>"; the unit "" is for a number of 512-byte
\* sectors.  The empty string (no size given) is NoSize.
Size(n, unit) == [num |-> FromInt(n), unit |-> unit]
NoSize == [num |-> FromInt(0), unit |-> "unset"]

\* partutil.ConvertSizeToBytes: a decimal number and an optional unit B, K, M
\* or G (binary units); no unit is 512-byte sectors; anything else is an
\* error.
ConvertSizeToBytes(size) ==
    CASE size.unit = "B" -> [err |-> FALSE, bytes |-> size.num]
      [] size.unit = "K" -> [err |-> FALSE, bytes |-> ShiftLeft(size.num, 10)]
      [] size.unit = "M" -> [err |-> FALSE, bytes |-> ShiftLeft(size.num, 20)]
      [] size.unit = "G" -> [err |-> FALSE, bytes |-> ShiftLeft(size.num, 30)]
      [] size.unit = ""  -> [err |-> FALSE, bytes |-> ShiftLeft(size.num, 9)]
      [] OTHER -> [err |-> TRUE, bytes |-> FromInt(0)]

\* partutil.ConvertSizeToGBRoundUp: the size in bytes, divided by 2^30 and
\* rounded up.
ConvertSizeToGBRoundUp(size) ==
    LET conv == ConvertSizeToBytes(size)
        mib == conv.bytes.hi + (IF conv.bytes.lo > 0 THEN 1 ELSE 0)
    IN  [err |-> conv.err, gb |-> (mib + 1023) \div 1024]

\* strconv.FormatUint(x, 10) + "B" and + "M"
BytesString(x) == [num |-> x, unit |-> "B"]
MegaString(n) == [num |-> IF n = Wrapped THEN U64(Wrapped, 0) ELSE FromInt(n), unit |-> "M"]

(***************************************************************************)
(* FinishImageBuild: validate, loadConfigs, validateOEM                    *)
(***************************************************************************)

\* An error: the format string of fmt.Errorf and its %d argument (None if the
\* format has none).  Nil is the nil error.
None == -1
Error(text, arg) == [text |-> text, arg |-> arg]
Nil == Error("", None)

\* x < y for two byte counts
Less(x, y) == x.hi < y.hi \/ (x.hi = y.hi /\ x.lo < y.lo)

\* The default size of the OEM partition in a COS image is assumed to be 16MB.
defaultOEMSizeMB == 16

\* The least oem-size validate accepts, in bytes: defaultOEMSizeMB << 20.
MinOEMBytes == ShiftLeft(FromInt(defaultOEMSizeMB), 20)

\* (f *FinishImageBuild) validate()
validate(flags) ==
    IF flags.oemSize # NoSize /\ ConvertSizeToBytes(flags.oemSize).err
    THEN Error("invalid format of oem-size: %q, error msg:(%v)", None)
    ELSE IF flags.oemSize # NoSize
            /\ Less(ConvertSizeToBytes(flags.oemSize).bytes, MinOEMBytes)
    THEN Error("oem-size must be at least %dM", defaultOEMSizeMB)
    ELSE IF flags.imageName = "" /\ flags.imageSuffix = ""
    THEN Error("one of 'image-name' or 'image-suffix' must be set", None)
    ELSE IF flags.imageName # "" /\ flags.imageSuffix # ""
    THEN Error("'image-name' and 'image-suffix' are mutually exclusive", None)
    ELSE IF flags.deprecateOld /\ flags.imageFamily = ""
    THEN Error("'deprecate-old-images' can only be used if 'image-family' is set", None)
    ELSE IF flags.oldImageTTLSec # 0 /\ ~flags.deprecateOld
    THEN Error("'old-image-ttl' can only be used if 'deprecate-old-images' is set", None)
    ELSE IF flags.zone = ""
    THEN Error("'zone' must be set", None)
    ELSE IF flags.project = ""
    THEN Error("'project' must be set", None)
    ELSE Nil

\* loadConfigs: the build config read from its file, with the flags copied in.
loadConfigs(flags, fromFile) ==
    [fromFile EXCEPT !.DiskSize = flags.diskSize, !.OEMSize = flags.oemSize]

\* The default size of a COS image (imgSize) is assumed to be 10GB.
imgSize == 10

\* Sealing with no oem-size set: the disk must be at least 11GB; the OEM fs
\* is 16M (4096 blocks of 4K) and the partition is doubled to 32M.
SealedDefaultDiskSize == 11
SealedDefaultOEMSize == Size(32, "M")
SealedDefaultFSSize4K == 4096

SealedDefaultError ==
    Error("need extra disk space to seal the OEM partition, disk-size-gb should be at least 11",
          None)

\* A branch that also takes the 1MB off the default size.
SealedDefaultShrunk(cfg) ==
    IF cfg.DiskSize < SealedDefaultDiskSize
    THEN [err |-> SealedDefaultError, cfg |-> cfg]
    ELSE [err |-> Nil,
          cfg |-> [cfg EXCEPT !.OEMSize = Size(31, "M"),
                              !.OEMFSSize4K = SealedDefaultFSSize4K]]

\* validateOEM, lines 183-195
SealedDefault(cfg) ==
    IF cfg.DiskSize < SealedDefaultDiskSize
    THEN [err |-> SealedDefaultError, cfg |-> cfg]
    ELSE [err |-> Nil,
          cfg |-> [cfg EXCEPT !.OEMSize = SealedDefaultOEMSize,
                              !.OEMFSSize4K = SealedDefaultFSSize4K]]

\* One message for both cases.
SizeErrorOneRule(seal) ==
    Error("'disk-size-gb' must be at least 'oem-size' + image size (%dGB)", imgSize)

\* sizeErrorMsg, with its argument imgSize
SizeError(seal) ==
    IF seal
    THEN Error("'disk-size-gb' must be at least 'oem-size' x 2 + image size (%dGB)", imgSize)
    ELSE Error("'disk-size-gb' must be at least 'oem-size' + image size (%dGB)", imgSize)

FormatError == Error("invalid format of oem-size: %q, error msg:(%v)", None)

\* The partition is not doubled for the hash tree.
PartitionBytesNotDoubled(seal, oemSizeBytes) == oemSizeBytes

\* oemSizeBytes after line 207: doubled when the partition is sealed.
PartitionBytes(seal, oemSizeBytes) ==
    IF seal THEN Double(oemSizeBytes) ELSE oemSizeBytes

\* The test of line 216: (uint64)(buildConfig.DiskSize) < imgSize+oemSizeGB
DiskTooSmall(diskSize, oemSizeGB) == Uint64Less(diskSize, imgSize + oemSizeGB)

\* A size that is not shrunk.
NotShrunkOEMSize(oemSizeBytes) == MegaString(Shr20(oemSizeBytes))

\* Line 228: strconv.FormatUint((oemSizeBytes>>20)-1, 10) + "M"
ShrunkOEMSize(oemSizeBytes) == MegaString(Uint64Dec(Shr20(oemSizeBytes)))

\* validateOEM(buildConfig): the error returned and the config it leaves.
validateOEM(cfg) ==
    IF ~cfg.SealOEM /\ cfg.OEMSize = NoSize THEN [err |-> Nil, cfg |-> cfg]
    ELSE IF cfg.SealOEM /\ cfg.OEMSize = NoSize THEN SealedDefault(cfg)
    ELSE
        LET conv == ConvertSizeToBytes(cfg.OEMSize)
            sealed == IF cfg.SealOEM
                      THEN [cfg EXCEPT !.OEMFSSize4K = Shr12(conv.bytes)]
                      ELSE cfg
            oemSizeBytes == PartitionBytes(cfg.SealOEM, conv.bytes)
            round == ConvertSizeToGBRoundUp(BytesString(oemSizeBytes))
        IN  IF conv.err THEN [err |-> FormatError, cfg |-> cfg]
            ELSE IF round.err THEN [err |-> FormatError, cfg |-> sealed]
            ELSE IF DiskTooSmall(cfg.DiskSize, round.gb)
            THEN [err |-> SizeError(cfg.SealOEM), cfg |-> sealed]
            ELSE [err |-> Nil,
                  cfg |-> [sealed EXCEPT !.OEMSize = ShrunkOEMSize(oemSizeBytes)]]

(***************************************************************************)
(* FinishImageBuild.Execute                                                *)
(***************************************************************************)

\* The largest -disk-size-gb of the model.
MaxDiskSize == 13

\* -disk-size-gb is an int flag: 0 is the default size, and a negative
\* number is accepted by the flag package as well.
DiskSizes == {-1, 0} \cup 9..MaxDiskSize

\* -oem-size: not given, below 16M, 16M in sectors, sizes that are no whole
\* number of MiB (in bytes, in sectors, in K), sizes below, at and above 1G,
\* and a string with no valid unit.
OEMSizes ==
    { NoSize, Size(15, "M"), Size(32768, ""), Size(16777217, "B"),
      Size(32769, ""), Size(16385, "K"), Size(500, "M"), Size(513, "M"),
      Size(1, "G"), Size(1025, "M"), Size(2, "G"), Size(1, "X") }

\* The other flags: two valid sets, one set for each case of validate's
\* switch, and a command line with an argument left over.
ValidFlags ==
    [nargs |-> 0, imageName |-> "img", imageSuffix |-> "", imageFamily |-> "",
     deprecateOld |-> FALSE, oldImageTTLSec |-> 0, zone |-> "z", project |-> "p",
     inheritLabels |-> FALSE]

FlagSets ==
    { ValidFlags,
      [ValidFlags EXCEPT !.imageName = "", !.imageSuffix = "-s", !.imageFamily = "fam",
                         !.deprecateOld = TRUE, !.oldImageTTLSec = 60,
                         !.inheritLabels = TRUE],
      [ValidFlags EXCEPT !.nargs = 1],
      [ValidFlags EXCEPT !.imageName = ""],
      [ValidFlags EXCEPT !.imageSuffix = "-s"],
      [ValidFlags EXCEPT !.deprecateOld = TRUE],
      [ValidFlags EXCEPT !.oldImageTTLSec = 60],
      [ValidFlags EXCEPT !.zone = ""],
      [ValidFlags EXCEPT !.project = ""] }

\* The flags of one command line.
Flags(other, oemSize, diskSize) ==
    [nargs |-> other.nargs, imageName |-> other.imageName,
     imageSuffix |-> other.imageSuffix, imageFamily |-> other.imageFamily,
     deprecateOld |-> other.deprecateOld, oldImageTTLSec |-> other.oldImageTTLSec,
     zone |-> other.zone, project |-> other.project,
     inheritLabels |-> other.inheritLabels,
     oemSize |-> oemSize, diskSize |-> diskSize]

\* The grub.cfg is not being patched.
NoGrub ==
    /\ grub = <<>>
    /\ reads = <<>>
    /\ calls = <<>>

\* The command starts; buildConfig holds what the build config file holds,
\* with SealOEM as an earlier command saved it.
InitBuild ==
    /\ \E other \in FlagSets, oemSize \in OEMSizes, diskSize \in DiskSizes :
          f = Flags(other, oemSize, diskSize)
    /\ \E seal \in BOOLEAN :
          buildConfig = [SealOEM |-> seal, OEMSize |-> NoSize, OEMFSSize4K |-> 0,
                         DiskSize |-> 0]
    /\ pc = "start"
    /\ exitStatus = ""
    /\ logged = Nil
    /\ oemCalls = <<>>
    /\ NoGrub
    /\ NoSeal
    /\ NoExtend

\* return subcommands.ExitFailure after log.Println(err)
Fail(err) ==
    /\ pc' = "returned"
    /\ exitStatus' = "ExitFailure"
    /\ logged' = err

Return(status) ==
    /\ pc' = "returned"
    /\ exitStatus' = status
    /\ UNCHANGED logged

Goto(next) ==
    /\ pc' = next
    /\ UNCHANGED <<exitStatus, logged>>

\* Lines 243-254: the arguments left over, and the service clients.
ExecuteStart ==
    /\ pc = "start"
    /\ \/ f.nargs # 0 /\ Return("ExitUsageError")
       \/ f.nargs = 0 /\ Fail(Error("ServiceClients", None))
       \/ f.nargs = 0 /\ Goto("validate")
    /\ UNCHANGED <<f, buildConfig, oemCalls, grubVars, sealVars, extendVars>>

\* Lines 255-258
Validate ==
    /\ pc = "validate"
    /\ \/ validate(f) # Nil /\ Fail(validate(f))
       \/ validate(f) = Nil /\ Goto("loadConfigs")
    /\ UNCHANGED <<f, buildConfig, oemCalls, grubVars, sealVars, extendVars>>

\* Lines 259-263
LoadConfigs ==
    /\ pc = "loadConfigs"
    /\ \/ Fail(Error("config.LoadFromFile", None)) /\ UNCHANGED buildConfig
       \/ Goto("validateOEM") /\ buildConfig' = loadConfigs(f, buildConfig)
    /\ UNCHANGED <<f, oemCalls, grubVars, sealVars, extendVars>>

\* The error of validateOEM is logged and the build goes on.
ValidateOEMGoingOn ==
    /\ pc = "validateOEM"
    /\ buildConfig' = validateOEM(buildConfig).cfg
    /\ oemCalls' = Append(oemCalls, [cfg |-> buildConfig,
                                     err |-> validateOEM(buildConfig).err])
    /\ pc' = "archive"
    /\ logged' = validateOEM(buildConfig).err
    /\ UNCHANGED <<exitStatus, f, grubVars, sealVars, extendVars>>

\* Lines 264-267
ValidateOEM ==
    /\ pc = "validateOEM"
    /\ buildConfig' = validateOEM(buildConfig).cfg
    /\ oemCalls' = Append(oemCalls, [cfg |-> buildConfig,
                                     err |-> validateOEM(buildConfig).err])
    /\ \/ validateOEM(buildConfig).err # Nil /\ Fail(validateOEM(buildConfig).err)
       \/ validateOEM(buildConfig).err = Nil /\ Goto("archive")
    /\ UNCHANGED <<f, grubVars, sealVars, extendVars>>

\* Lines 268-271
CreateBuildContextArchive ==
    /\ pc = "archive"
    /\ \/ Fail(Error("fs.CreateBuildContextArchive", None))
       \/ Goto("imageExists")
    /\ UNCHANGED <<f, buildConfig, oemCalls, grubVars, sealVars, extendVars>>

\* Lines 272-280
ImageExists ==
    /\ pc = "imageExists"
    /\ \/ Fail(Error("gce.ImageExists", None))
       \/ Return("ExitSuccess")
       \/ f.inheritLabels /\ Goto("inheritLabels")
       \/ ~f.inheritLabels /\ Goto("buildImage")
    /\ UNCHANGED <<f, buildConfig, oemCalls, grubVars, sealVars, extendVars>>

\* Lines 281-288
InheritLabels ==
    /\ pc = "inheritLabels"
    /\ \/ Fail(Error("svc.Images.Get", None))
       \/ Goto("buildImage")
    /\ UNCHANGED <<f, buildConfig, oemCalls, grubVars, sealVars, extendVars>>

\* Lines 289-296
BuildImage ==
    /\ pc = "buildImage"
    /\ \/ Fail(Error("preloader.BuildImage", None))
       \/ f.deprecateOld /\ Goto("deprecate")
       \/ ~f.deprecateOld /\ Return("ExitSuccess")
    /\ UNCHANGED <<f, buildConfig, oemCalls, grubVars, sealVars, extendVars>>

\* Lines 297-303
DeprecateInFamily ==
    /\ pc = "deprecate"
    /\ \/ Fail(Error("gce.DeprecateInFamily", None))
       \/ Return("ExitSuccess")
    /\ UNCHANGED <<f, buildConfig, oemCalls, grubVars, sealVars, extendVars>>

NextBuild ==
    \/ ExecuteStart
    \/ Validate
    \/ LoadConfigs
    \/ ValidateOEM
    \/ CreateBuildContextArchive
    \/ ImageExists
    \/ InheritLabels
    \/ BuildImage
    \/ DeprecateInFamily

SpecBuild == InitBuild /\ [][NextBuild]_vars

(***************************************************************************)
(* validateOEM: what it accepts and what it leaves in the config           *)
(***************************************************************************)

\* validateOEM was called: the config it was given, the error it returned.
\* buildConfig is the config it left; no later statement of Execute writes it.
Called == oemCalls # <<>>
Given == oemCalls[1].cfg
Returned == oemCalls[1].err
Accepted == Called /\ Returned = Nil

\* An OEM size was requested, and it is a size.
SizeRequested ==
    Called /\ Given.OEMSize # NoSize /\ ~ConvertSizeToBytes(Given.OEMSize).err

\* R, the requested size in bytes, and P, the size of the partition: R, or
\* twice R when the partition is sealed.
R == ConvertSizeToBytes(Given.OEMSize).bytes
P == IF Given.SealOEM THEN U64(2 * R.hi + (2 * R.lo) \div MiB, (2 * R.lo) % MiB) ELSE R

\* ceil(x / 2^30) for a byte count x
CeilGB(x) ==
    CHOOSE g \in 0..4096 :
        /\ Less(x, U64(g * 1024, 1))
        /\ g > 0 => ~Less(x, U64((g - 1) * 1024, 1))

\* C5: with an OEM size requested, validateOEM accepts exactly when
\* DiskSize >= 10 + ceil(P / 2^30).
C5_AcceptsIffDiskFits ==
    SizeRequested => (Returned = Nil <=> Given.DiskSize >= 10 + CeilGB(P))

\* The same for the disk sizes that are not negative.
C5_AcceptsIffDiskFitsFromZero ==
    (SizeRequested /\ Given.DiskSize >= 0) =>
        (Returned = Nil <=> Given.DiskSize >= 10 + CeilGB(P))

\* C6: sealing with no OEM size requested is accepted exactly when
\* DiskSize >= 11, and leaves the OEM size "32M" with 4096 data blocks of 4096
\* bytes, 16 MiB.
C6_SealedDefault ==
    (Called /\ Given.SealOEM /\ Given.OEMSize = NoSize) =>
        /\ Returned = Nil <=> Given.DiskSize >= 11
        /\ Returned = Nil =>
              /\ buildConfig.OEMSize = Size(32, "M")
              /\ buildConfig.OEMFSSize4K = 4096
              /\ buildConfig.OEMFSSize4K * 4096 = 16 * MiB

C6_Witness ==
    /\ Accepted /\ Given.SealOEM /\ Given.OEMSize = NoSize
    /\ buildConfig.OEMSize = Size(32, "M")

\* C7 as claimed: without sealing, the size left in the config is R less
\* exactly 1 MiB.
C7_ShrunkByOneMiB ==
    (SizeRequested /\ ~Given.SealOEM /\ Accepted) =>
        LET left == ConvertSizeToBytes(buildConfig.OEMSize)
        IN  /\ ~left.err
            /\ left.bytes.hi + 1 = R.hi
            /\ left.bytes.lo = R.lo

\* C7 as the code has it: the size left is R rounded down to whole MiB, less
\* 1 MiB, in M: "1G" becomes "1023M".
C7_RoundedDownThenShrunk ==
    (SizeRequested /\ ~Given.SealOEM /\ Accepted) =>
        /\ R.hi >= 1
        /\ buildConfig.OEMSize = Size(R.hi - 1, "M")
        /\ Given.OEMSize = Size(1, "G") => buildConfig.OEMSize = Size(1023, "M")

\* A size that is no whole number of MiB was accepted without sealing.
C7_Witness ==
    /\ SizeRequested /\ ~Given.SealOEM /\ Accepted
    /\ R.lo # 0
    /\ buildConfig.OEMSize = Size(R.hi - 1, "M")

DiskRejected ==
    /\ Called
    /\ Returned # Nil
    /\ Given.OEMSize # NoSize => SizeRequested

\* The number of GB the error message names.
NamedGB(err) == IF err = SealedDefaultError THEN 11 ELSE err.arg

\* The least disk size the request needs.
RequiredGB == IF Given.OEMSize = NoSize THEN 11 ELSE 10 + CeilGB(P)

\* C9 as claimed: the error of a rejection names the least disk size the
\* request needs.
C9_ErrorNamesRequiredSize == DiskRejected => NamedGB(Returned) = RequiredGB

\* C9 as the code has it: with an OEM size requested the error states the
\* rule, 'oem-size' (x 2 when sealing) + image size, and names the image size,
\* 10GB, whatever the request needs; with none requested it names 11.
C9_ErrorNamesImageSize ==
    DiskRejected =>
        /\ (Given.OEMSize # NoSize /\ Given.SealOEM) =>
              Returned = Error("'disk-size-gb' must be at least 'oem-size' x 2 + image size (%dGB)", 10)
        /\ (Given.OEMSize # NoSize /\ ~Given.SealOEM) =>
              Returned = Error("'disk-size-gb' must be at least 'oem-size' + image size (%dGB)", 10)
        /\ Given.OEMSize = NoSize => NamedGB(Returned) = 11

\* A rejected request that needs 12 GB, sealed, with an error that names 10.
C9_Witness ==
    /\ DiskRejected /\ SizeRequested /\ Given.SealOEM
    /\ RequiredGB = 12
    /\ NamedGB(Returned) = 10

(***************************************************************************)
(* veritysetup                                                             *)
(***************************************************************************)

Colon == ":"

\* The white space strings.TrimSpace cuts off.
Spaces == {" ", "\t", "\r", "\n"}

\* The greatest element of a non-empty set of integers.
Max(S) == CHOOSE i \in S : \A j \in S : i >= j

\* strings.TrimSpace(s)
TrimSpace(s) ==
    LET keep == {i \in 1..Len(s) : s[i] \notin Spaces}
    IN  IF keep = {} THEN <<>> ELSE SubSeq(s, Min(keep), Max(keep))

RootHashKey == <<"R", "o", "o", "t", " ", "h", "a", "s", "h", ":">>
SaltKey == <<"S", "a", "l", "t", ":">>

\* strings.TrimSpace(strings.Split(line, ":")[1]), for a line with a colon
FieldValue(line) == TrimSpace(Split(line, Colon)[2])

\* Lines 157-165: hash and salt after the loop over the lines of the output;
\* a later line overrides an earlier one.
ParseVerity(out) ==
    LET lines == Split(out, NL)
        st[i \in 0..Len(lines)] ==
            IF i = 0 THEN [hash |-> <<>>, salt |-> <<>>]
            ELSE IF HasPrefix(lines[i], RootHashKey)
                 THEN [st[i - 1] EXCEPT !.hash = FieldValue(lines[i])]
            ELSE IF HasPrefix(lines[i], SaltKey)
                 THEN [st[i - 1] EXCEPT !.salt = FieldValue(lines[i])]
            ELSE st[i - 1]
    IN  st[Len(lines)]

\* An error only when both are missing.
VerityMissingBoth(h, s) == h = <<>> /\ s = <<>>

\* Line 166: hash == "" || salt == ""
VerityMissing(h, s) == h = <<>> \/ s = <<>>

\* veritysetup(imageID, oemFSSize4K): ran tells whether docker run succeeded,
\* out is what it wrote to verityBuf.  The result is what veritysetup returns,
\* err = "" for nil, together with ran and out.
veritysetup(ran, out) ==
    LET p == ParseVerity(out)
        failed(err) == [ran |-> ran, out |-> out, hash |-> <<>>, salt |-> <<>>,
                        err |-> err]
    IN  IF ~ran THEN failed("error in running docker veritysetup")
        ELSE IF VerityMissing(p.hash, p.salt)
             THEN failed("error in veritsetup output format")
        ELSE [ran |-> ran, out |-> out, hash |-> p.hash, salt |-> p.salt, err |-> ""]

(***************************************************************************)
(* SealOEMPartition                                                        *)
(***************************************************************************)

\* The most lines of an output of the veritysetup tool.
MaxOutLines == 2

\* Lines of the tool's report: a line that is neither field, the two fields,
\* the two fields without a value, a field that is indented, and fields with
\* a second colon.
VerityLines ==
    { <<"U", "U", "I", "D", ":">>,
      <<"S", "a", "l", "t", ":", " ", "9", "c">>,
      <<"R", "o", "o", "t", " ", "h", "a", "s", "h", ":", " ", "d", "6">>,
      <<"S", "a", "l", "t", ":", " ">>,
      <<"R", "o", "o", "t", " ", "h", "a", "s", "h", ":">>,
      <<" ", "S", "a", "l", "t", ":", " ", "9", "c">>,
      <<"R", "o", "o", "t", " ", "h", "a", "s", "h", ":", ":", "d", "6">>,
      <<"S", "a", "l", "t", ":", " ", "9", ":", "c">> }

\* The outputs of at most MaxOutLines lines, each ended by a newline.
VerityOutputs ==
    { Join(ls, NL) \o <<NL>> :
        ls \in UNION {[1..n -> VerityLines] : n \in 1..MaxOutLines} } \cup { <<>> }

\* grub.cfg on the EFI partition: a kernel command line in a menu entry, a
\* file without a dm table, and a file on which the patch panics.
SealGrubFiles ==
    { Join(<< <<"r", "o", " ">> \o DmTable(1, 1), <<"}">> >>, NL) \o <<NL>>,
      <<"}", NL>>,
      DmKey \o <<Quote, Quote, NL>> }

OEMPartition == "/dev/sda8"
EFIPartition == "/dev/sda12"
VeritysetupImage == "veritysetup:veritysetup"

\* return nil
SealNil == "nil"

InitSeal ==
    /\ grub \in SealGrubFiles
    /\ reads = <<>>
    /\ calls = <<>>
    /\ NoBuild
    /\ sealPc = "loadVeritysetupImage"
    /\ fsSize4K \in BlockCounts
    /\ images = {}
    /\ mounted \in {{}, {OEMPartition}}
    /\ verityCalls = <<>>
    /\ uuid = <<>>
    /\ sealErr = ""
    /\ steps = <<>>
    /\ NoExtend

SealReturn(err) ==
    /\ sealPc' = "returned"
    /\ sealErr' = err

SealGoto(next) ==
    /\ sealPc' = next
    /\ UNCHANGED sealErr

Step(fn) == steps' = Append(steps, fn)

\* Lines 21-25 and 58-77: docker load fails; or the image is loaded and its ID
\* cannot be read; or it is loaded and its ID is returned.
LoadVeritysetupImage ==
    /\ sealPc = "loadVeritysetupImage"
    /\ Step("loadVeritysetupImage")
    /\ \/ /\ UNCHANGED images
          /\ SealReturn("cannot load veritysetup image")
       \/ /\ images' = images \cup {VeritysetupImage}
          /\ SealReturn("cannot load veritysetup image")
       \/ /\ images' = images \cup {VeritysetupImage}
          /\ SealGoto("unmountOEMPartition")
    /\ UNCHANGED <<grubVars, buildVars, extendVars, fsSize4K, mounted, verityCalls, uuid>>

\* Lines 26-29 and 113-130: df fails; or df does not list /dev/sda8; or umount
\* fails; or /dev/sda8 is unmounted.
UnmountOEMPartition ==
    /\ sealPc = "unmountOEMPartition"
    /\ Step("unmountOEMPartition")
    /\ \/ /\ UNCHANGED mounted
          /\ SealReturn("cannot umount OEM partition")
       \/ /\ OEMPartition \notin mounted
          /\ UNCHANGED mounted
          /\ SealGoto("veritysetup")
       \/ /\ OEMPartition \in mounted
          /\ UNCHANGED mounted
          /\ SealReturn("cannot umount OEM partition")
       \/ /\ OEMPartition \in mounted
          /\ mounted' = mounted \ {OEMPartition}
          /\ SealGoto("veritysetup")
    /\ UNCHANGED <<grubVars, buildVars, extendVars, fsSize4K, images, verityCalls, uuid>>

\* Lines 30-34
Veritysetup ==
    /\ sealPc = "veritysetup"
    /\ Step("veritysetup")
    /\ \E ran \in BOOLEAN, out \in VerityOutputs :
          LET r == veritysetup(ran, out)
          IN  /\ verityCalls' = Append(verityCalls, r)
              /\ IF r.err # ""
                 THEN SealReturn("cannot run veritysetup")
                 ELSE SealGoto("mountEFIPartition")
    /\ UNCHANGED <<grubVars, buildVars, extendVars, fsSize4K, images, mounted, uuid>>

\* Lines 35-39 and 95-111: mktemp or mount fails; or /dev/sda12 is mounted.
MountEFIPartition ==
    /\ sealPc = "mountEFIPartition"
    /\ Step("mountEFIPartition")
    /\ \/ /\ UNCHANGED mounted
          /\ SealReturn("cannot mount EFI partition (/dev/sda12)")
       \/ /\ mounted' = mounted \cup {EFIPartition}
          /\ SealGoto("GetPartUUID")
    /\ UNCHANGED <<grubVars, buildVars, extendVars, fsSize4K, images, verityCalls, uuid>>

\* Lines 40-43: partutil.GetPartUUID("/dev/sda8") returns the UUID or an error.
GetPartUUID ==
    /\ sealPc = "GetPartUUID"
    /\ Step("GetPartUUID")
    /\ \/ /\ UNCHANGED uuid
          /\ SealReturn("cannot read partUUID of /dev/sda8")
       \/ /\ uuid' \in PartUUIDs
          /\ SealGoto("appendDMEntryToGRUB")
    /\ UNCHANGED <<grubVars, buildVars, extendVars, fsSize4K, images, mounted, verityCalls>>

\* Lines 44-48: a panic in appendDMEntryToGRUB ends the process.
AppendDMEntryToGRUB ==
    /\ sealPc = "appendDMEntryToGRUB"
    /\ Step("appendDMEntryToGRUB")
    /\ \E res \in {"readErr", "panic", "writeErr", "ok"} :
          /\ appendDMEntryToGRUB(devName, uuid, verityCalls[Len(verityCalls)].hash,
                                 verityCalls[Len(verityCalls)].salt, fsSize4K, res)
          /\ CASE res = "ok" -> SealGoto("removeVeritysetupImage")
               [] res = "panic" -> SealGoto("panicked")
               [] OTHER -> SealReturn("error in appending entry to grub.cfg")
    /\ UNCHANGED <<buildVars, extendVars, fsSize4K, images, mounted, verityCalls, uuid>>

\* Lines 49-53 and 80-90: docker rmi fails; or the image is removed.
RemoveVeritysetupImage ==
    /\ sealPc = "removeVeritysetupImage"
    /\ Step("removeVeritysetupImage")
    /\ \/ /\ UNCHANGED images
          /\ SealReturn("cannot remove veritysetup container or image")
       \/ /\ images' = images \ {VeritysetupImage}
          /\ SealReturn(SealNil)
    /\ UNCHANGED <<grubVars, buildVars, extendVars, fsSize4K, mounted, verityCalls, uuid>>

NextSeal ==
    \/ LoadVeritysetupImage
    \/ UnmountOEMPartition
    \/ Veritysetup
    \/ MountEFIPartition
    \/ GetPartUUID
    \/ AppendDMEntryToGRUB
    \/ RemoveVeritysetupImage

SpecSeal == InitSeal /\ [][NextSeal]_vars

(***************************************************************************)
(* veritysetup: an output without its two fields                           *)
(***************************************************************************)

\* The output has a line that starts with the key and has a value after it.
HasField(out, key) ==
    \E i \in DOMAIN Split(out, NL) :
        LET line == Split(out, NL)[i]
        IN  /\ HasPrefix(line, key)
            /\ TrimSpace(SubSeq(line, Len(key) + 1, Len(line))) # <<>>

Incomplete(out) == ~HasField(out, SaltKey) \/ ~HasField(out, RootHashKey)

VerityReturned == verityCalls # <<>>
VerityResult == verityCalls[Len(verityCalls)]

\* C10: when the output of the tool lacks a "Salt:" line with a value or a
\* "Root hash:" line with a value, veritysetup returns an error; with an error
\* it returns hash and salt both empty; and SealOEMPartition then returns its
\* error with grub.cfg not read ...
C10_VerityError ==
    VerityReturned =>
        /\ Incomplete(VerityResult.out) => VerityResult.err # ""
        /\ VerityResult.err # "" =>
              /\ VerityResult.hash = <<>>
              /\ VerityResult.salt = <<>>
              /\ sealPc = "returned"
              /\ sealErr = "cannot run veritysetup"
              /\ reads = <<>>
              /\ calls = <<>>

\* ... and not written.
C10_GrubKept ==
    (VerityReturned /\ VerityResult.err # "") => grub' = grub

\* C10: an output of the veritysetup tool without a non-empty "Salt:" line or
\* without a non-empty "Root hash:" line makes veritysetup return an error with
\* hash and salt both empty, and SealOEMPartition return an error without
\* reading or writing grub.cfg.
C10_IncompleteOutputFails == [](C10_VerityError) /\ [][C10_GrubKept]_vars

\* The tool ran and printed a root hash but no salt, and SealOEMPartition
\* has returned.
C10_Witness ==
    /\ VerityReturned
    /\ VerityResult.ran
    /\ HasField(VerityResult.out, RootHashKey)
    /\ ~HasField(VerityResult.out, SaltKey)
    /\ sealPc = "returned"

(***************************************************************************)
(* SealOEMPartition: the order of its steps                                *)
(***************************************************************************)

\* The positions in steps at which fn was called.
CallsOf(fn) == {i \in DOMAIN steps : steps[i] = fn}

\* Every call of fn comes after a call of before.
Precedes(before, fn) ==
    \A i \in CallsOf(fn) : \E j \in CallsOf(before) : j < i

\* The call of fn has returned without an error: the run went on to a later
\* statement, or ended with nil.
Succeeded(fn) ==
    /\ CallsOf(fn) # {}
    /\ \/ Max(CallsOf(fn)) < Len(steps)
       \/ sealPc \notin {"returned", "panicked"}
       \/ sealErr = SealNil

\* C11: the steps of SealOEMPartition occur in the order unmount the OEM
\* partition, load the veritysetup image, run veritysetup: the image is not
\* loaded before the unmount, and the tool does not run while /dev/sda8 may be
\* mounted.
C11_UnmountLoadRun ==
    /\ Precedes("unmountOEMPartition", "loadVeritysetupImage")
    /\ Precedes("loadVeritysetupImage", "veritysetup")
    /\ Precedes("unmountOEMPartition", "veritysetup")
    /\ CallsOf("veritysetup") # {} => OEMPartition \notin mounted

\* The order of the code: load, unmount, run; the tool runs only with
\* /dev/sda8 not mounted.
C11_LoadUnmountRun ==
    /\ Precedes("loadVeritysetupImage", "unmountOEMPartition")
    /\ Precedes("loadVeritysetupImage", "veritysetup")
    /\ Precedes("unmountOEMPartition", "veritysetup")
    /\ CallsOf("veritysetup") # {} => OEMPartition \notin mounted

(***************************************************************************)
(* SealOEMPartition: the veritysetup image                                 *)
(***************************************************************************)

SealReturned == sealPc = "returned"

\* C12: when SealOEMPartition returns after it loaded the veritysetup image
\* and veritysetup extracted hash and salt, removeVeritysetupImage has been
\* called, whatever later step failed, and no run that removed the image
\* leaves it loaded.
C12_ImageRemovedOnReturn ==
    (SealReturned /\ Succeeded("loadVeritysetupImage") /\ Succeeded("veritysetup")) =>
        CallsOf("removeVeritysetupImage") # {}

\* removeVeritysetupImage is called only at the end of a run in which every
\* other step succeeded, and a run that returns nil leaves no image.
C12_ImageRemovedOnSuccess ==
    /\ CallsOf("removeVeritysetupImage") # {} =>
          /\ Succeeded("appendDMEntryToGRUB")
          /\ Len(steps) = 7
    /\ (SealReturned /\ sealErr = SealNil) => images = {}

(***************************************************************************)
(* partutil.MovePartition                                                  *)
(***************************************************************************)

\* The sectors of the disk, and the most calls of MovePartition.
DiskSectors == 12
MaxMoves == 2

Disk == "/dev/sda"
StatePartNum == 1
RootPartNum == 3
OEMPartNum == 8

\* One entry of the partition table, in sectors.
Part(start, size) == [start |-> start, size |-> size]

\* A disk with a root partition, the OEM partition after it and the stateful
\* partition right after the OEM partition; the rest of the disk is free.
Layout(oemSize, stateSize) ==
    [p \in {StatePartNum, RootPartNum, OEMPartNum} |->
        IF p = RootPartNum THEN Part(0, 2)
        ELSE IF p = OEMPartNum THEN Part(2, oemSize)
        ELSE Part(2 + oemSize, stateSize)]

Tables == {Layout(oemSize, stateSize) : oemSize \in 1..2, stateSize \in 2..3}

\* Two entries share a sector.
Overlap(a, b) == a.start < b.start + b.size /\ b.start < a.start + a.size

\* The input line of sfdisk is a sector number, +N or -N.
IsDest(dest) ==
    \/ IsNumber(dest)
    \/ dest # <<>> /\ dest[1] \in {"+", "-"} /\ IsNumber(Tail(dest))

\* The start sector the input line asks for.
DestStart(start, dest) ==
    IF dest[1] = "+" THEN start + NumberOf(Tail(dest))
    ELSE IF dest[1] = "-" THEN start - NumberOf(Tail(dest))
    ELSE NumberOf(dest)

\* The table after the move.
Moved(t, partNum, dest) ==
    [t EXCEPT ![partNum] = Part(DestStart(t[partNum].start, dest), t[partNum].size)]

\* sfdisk --no-reread --move-data=/dev/null <disk> -N <partNum> can make the
\* move: the disk and the partition exist, and the moved partition is on the
\* disk and overlaps no other partition.
SfdiskAccepts(t, disk, partNum, dest) ==
    /\ disk = Disk
    /\ partNum \in DOMAIN t
    /\ IsDest(dest)
    /\ LET new == Moved(t, partNum, dest)[partNum]
       IN  /\ new.start >= 0
           /\ new.start + new.size <= DiskSectors
           /\ \A q \in DOMAIN t \ {partNum} : ~Overlap(new, t[q])

\* A failure of sfdisk is not returned.
MovePartitionHidingFailure(disk, partNumInt, dest, ok) ==
    IF disk = "" \/ partNumInt <= 0 \/ dest = <<>>
    THEN /\ moveCalls' = Append(moveCalls,
                [disk |-> disk, partNumInt |-> partNumInt, dest |-> dest,
                 err |-> "invalid input"])
         /\ UNCHANGED <<table, sfdiskRuns>>
    ELSE /\ sfdiskRuns' = Append(sfdiskRuns, [input |-> dest, disk |-> disk,
                                              partNum |-> partNumInt, ok |-> FALSE])
         /\ table' = table
         /\ moveCalls' = Append(moveCalls,
                [disk |-> disk, partNumInt |-> partNumInt, dest |-> dest, err |-> ""])

\* The destination is not looked at.
InvalidInputButDest(disk, partNumInt, dest) == disk = "" \/ partNumInt <= 0

\* Line 70: len(disk) <= 0 || partNumInt <= 0 || len(dest) <= 0
InvalidInput(disk, partNumInt, dest) == disk = "" \/ partNumInt <= 0 \/ dest = <<>>

\* ExecCmdToStdout(cmd) runs the command once and returns an error when it
\* fails, nil ("") when it succeeds.
ExecCmdToStdout(ok) == IF ok THEN "" ELSE "exit status 1"

MoveResult(disk, partNumInt, dest, err) ==
    [disk |-> disk, partNumInt |-> partNumInt, dest |-> dest, err |-> err]

\* MovePartition(disk, partNumInt, dest); ok tells whether the sfdisk command
\* succeeds, which it can only when sfdisk can make the move.  err = "" is nil.
MovePartition(disk, partNumInt, dest, ok) ==
    IF InvalidInput(disk, partNumInt, dest)
    THEN /\ moveCalls' = Append(moveCalls,
                                MoveResult(disk, partNumInt, dest, "invalid input"))
         /\ UNCHANGED <<table, sfdiskRuns>>
    ELSE /\ ok => SfdiskAccepts(table, disk, partNumInt, dest)
         /\ sfdiskRuns' = Append(sfdiskRuns, [input |-> dest, disk |-> disk,
                                              partNum |-> partNumInt, ok |-> ok])
         /\ table' = IF ok THEN Moved(table, partNumInt, dest) ELSE table
         /\ moveCalls' = Append(moveCalls,
                MoveResult(disk, partNumInt, dest,
                           IF ExecCmdToStdout(ok) = "" THEN ""
                           ELSE "error in executing sfdisk --move-data"))

\* The arguments of the calls.
Disks == {"", Disk}
PartNums == {-1, 0, StatePartNum, OEMPartNum, 9}
Dests == { <<>>, <<"4">>, <<"+", "2">>, <<"-", "2">>, <<"G">> }

InitMove ==
    /\ table \in Tables
    /\ sfdiskRuns = <<>>
    /\ moveCalls = <<>>
    /\ extPc = ""
    /\ extArgs = <<>>
    /\ extErr = ""
    /\ NoGrub
    /\ NoBuild
    /\ NoSeal

Move ==
    /\ Len(moveCalls) < MaxMoves
    /\ \E disk \in Disks, partNumInt \in PartNums, dest \in Dests, ok \in BOOLEAN :
          MovePartition(disk, partNumInt, dest, ok)
    /\ UNCHANGED <<grubVars, buildVars, sealVars, extPc, extArgs, extErr>>

NextMove == Move

SpecMove == InitMove /\ [][NextMove]_vars

(***************************************************************************)
(* MovePartition: invalid input, and the one run of sfdisk                 *)
(***************************************************************************)

MoveCalled == moveCalls # <<>>
LastMove == moveCalls[Len(moveCalls)]
Invalid(c) == c.disk = "" \/ c.partNumInt <= 0 \/ c.dest = <<>>

\* C13, as a step: a call of MovePartition with an empty disk, a partition
\* number <= 0 or an empty destination returns the invalid-input error without
\* running sfdisk and leaves the partition table as it was; any other call
\* runs sfdisk once, on its arguments, and returns an error exactly when
\* sfdisk fails.
C13_Step ==
    Len(moveCalls') = Len(moveCalls) + 1 =>
        LET c == moveCalls'[Len(moveCalls')]
        IN  IF Invalid(c)
            THEN /\ c.err = "invalid input"
                 /\ sfdiskRuns' = sfdiskRuns
                 /\ table' = table
            ELSE /\ Len(sfdiskRuns') = Len(sfdiskRuns) + 1
                 /\ SubSeq(sfdiskRuns', 1, Len(sfdiskRuns)) = sfdiskRuns
                 /\ LET run == sfdiskRuns'[Len(sfdiskRuns')]
                    IN  /\ run.input = c.dest
                        /\ run.disk = c.disk
                        /\ run.partNum = c.partNumInt
                        /\ (c.err # "") <=> ~run.ok
                 /\ c.err # "invalid input"

\* C13: MovePartition returns an invalid-input error and does not run sfdisk
\* when disk is empty, the partition number is <= 0 or the destination is
\* empty; for valid input it runs sfdisk exactly once and returns an error
\* exactly when sfdisk fails.
C13_InvalidInputOrOneRun == [][C13_Step]_vars

\* Both cases have happened: a call with an empty destination was refused,
\* then a valid call moved a partition.
C13_Witness ==
    /\ Len(moveCalls) = 2
    /\ moveCalls[1].dest = <<>> /\ moveCalls[1].disk = Disk /\ moveCalls[1].partNumInt > 0
    /\ moveCalls[1].err = "invalid input"
    /\ moveCalls[2].err = ""
    /\ Len(sfdiskRuns) = 1

(***************************************************************************)
(* extend_oem: main and tools.ExtendOEMPartition                          *)
(***************************************************************************)

\* strconv.Atoi(s) of an unsigned decimal; -1 stands for its error.
AtoiError == -1
Atoi(s) == IF IsNumber(s) THEN NumberOf(s) ELSE AtoiError

\* os.Args: the number of arguments, and args[1] to args[4].  The new size of
\* the OEM partition is a number of sectors.
Targets == {2, 3, 4, 8}
ExtendArgs ==
    [len : {4, 5}, disk : {Disk}, statePartNum : {<<"1">>}, oemPartNum : {<<"8">>},
     oemSize : {FormatUint(4)}]
    \cup [len : {5}, disk : Disks, statePartNum : {<<"1">>, <<"0">>, <<"x">>},
          oemPartNum : {<<"8">>, <<"x">>}, oemSize : {FormatUint(n) : n \in Targets}]

InitExtend ==
    /\ table \in Tables
    /\ sfdiskRuns = <<>>
    /\ moveCalls = <<>>
    /\ extPc = "main"
    /\ extArgs \in ExtendArgs
    /\ extErr = ""
    /\ NoGrub
    /\ NoBuild
    /\ NoSeal

\* log.Fatalln(err)
Fatal(err) ==
    /\ extPc' = "fatal"
    /\ extErr' = err

ExtGoto(next) ==
    /\ extPc' = next
    /\ UNCHANGED extErr

\* The arguments of tools.ExtendOEMPartition, as main passes them.
ExtDisk == extArgs.disk
ExtStatePartNum == Atoi(extArgs.statePartNum)
ExtOEMPartNum == Atoi(extArgs.oemPartNum)
ExtTarget == Atoi(extArgs.oemSize)

\* Lines 26-40: main checks its arguments and calls ExtendOEMPartition, which
\* reads the size of the OEM partition and refuses a size that is not larger.
Main ==
    /\ extPc = "main"
    /\ IF extArgs.len # 5 THEN Fatal("error: must have 4 arguments")
       ELSE IF ExtStatePartNum = AtoiError
       THEN Fatal("error: the 2nd argument statePartNum must be an int")
       ELSE IF ExtOEMPartNum = AtoiError
       THEN Fatal("error: the 3rd argument oemPartNum must be an int")
       ELSE IF ExtDisk # Disk \/ ExtOEMPartNum \notin DOMAIN table
       THEN Fatal("cannot read the size of the OEM partition")
       ELSE IF ExtTarget <= table[ExtOEMPartNum].size
       THEN Fatal("the new size is not larger than the OEM partition")
       ELSE ExtGoto("moveAway")
    /\ UNCHANGED <<grubVars, buildVars, sealVars, table, sfdiskRuns, moveCalls, extArgs>>

\* The error of the last call of MovePartition, after the call.
MoveFailed == moveCalls'[Len(moveCalls')].err # ""

\* Where the stateful partition is moved to: on by the growth of the OEM
\* partition, or to the end of the disk.
AwayDests(t, statePartNum, oemPartNum, target) ==
    { <<"+">> \o FormatUint(target - t[oemPartNum].size) }
    \cup IF statePartNum \in DOMAIN t
         THEN { FormatUint(DiskSectors - t[statePartNum].size) }
         ELSE {}

\* The stateful partition is moved away.
MoveStatefulAway ==
    /\ extPc = "moveAway"
    /\ \E ok \in BOOLEAN,
          dest \in AwayDests(table, ExtStatePartNum, ExtOEMPartNum, ExtTarget) :
          MovePartition(ExtDisk, ExtStatePartNum, dest, ok)
    /\ IF MoveFailed THEN Fatal("cannot move the stateful partition")
       ELSE ExtGoto("resize")
    /\ UNCHANGED <<grubVars, buildVars, sealVars, extArgs>>

\* The table with the size of a partition set.
Resized(t, partNum, size) == [t EXCEPT ![partNum] = Part(t[partNum].start, size)]

\* sfdisk can set the size: the partition stays on the disk and overlaps no
\* other partition.
SfdiskAcceptsSize(t, partNum, size) ==
    LET new == Resized(t, partNum, size)[partNum]
    IN  /\ new.start + new.size <= DiskSectors
        /\ \A q \in DOMAIN t \ {partNum} : ~Overlap(new, t[q])

\* The entry of the OEM partition is set to the new size, by one run of sfdisk.
ResizeOEM ==
    /\ extPc = "resize"
    /\ \E ok \in BOOLEAN :
          /\ ok => SfdiskAcceptsSize(table, ExtOEMPartNum, ExtTarget)
          /\ sfdiskRuns' = Append(sfdiskRuns,
                [input |-> <<",">> \o FormatUint(ExtTarget), disk |-> ExtDisk,
                 partNum |-> ExtOEMPartNum, ok |-> ok])
          /\ table' = IF ok THEN Resized(table, ExtOEMPartNum, ExtTarget) ELSE table
          /\ IF ExecCmdToStdout(ok) # "" THEN Fatal("cannot resize the OEM partition")
             ELSE ExtGoto("moveBack")
    /\ UNCHANGED <<grubVars, buildVars, sealVars, moveCalls, extArgs>>

\* The stateful partition starts right after the OEM partition.
Contiguous(t, statePartNum, oemPartNum) ==
    t[statePartNum].start = t[oemPartNum].start + t[oemPartNum].size

\* The stateful partition is moved back to the end of the OEM partition, the
\* table is read again, and main returns (lines 41-44).
MoveStatefulBack ==
    /\ extPc = "moveBack"
    /\ \E ok \in BOOLEAN :
          MovePartition(ExtDisk, ExtStatePartNum,
                        FormatUint(table[ExtOEMPartNum].start + table[ExtOEMPartNum].size),
                        ok)
    /\ IF MoveFailed THEN Fatal("cannot move the stateful partition")
       ELSE IF ~Contiguous(table', ExtStatePartNum, ExtOEMPartNum)
       THEN Fatal("the layout is inconsistent")
       ELSE ExtGoto("exit")
    /\ UNCHANGED <<grubVars, buildVars, sealVars, extArgs>>

NextExtend ==
    \/ Main
    \/ MoveStatefulAway
    \/ ResizeOEM
    \/ MoveStatefulBack

SpecExtend == InitExtend /\ [][NextExtend]_vars

(***************************************************************************)
(* The extension of the OEM partition                                      *)
(***************************************************************************)

ExtendDone == extPc = "exit"

NoOverlap(t) ==
    \A p \in DOMAIN t, q \in DOMAIN t : p # q => ~Overlap(t[p], t[q])

\* No run of sfdisk and no call of MovePartition follows one that failed.
FailureIsLast ==
    /\ \A i \in 1..(Len(sfdiskRuns) - 1) : sfdiskRuns[i].ok
    /\ \A i \in 1..(Len(moveCalls) - 1) : moveCalls[i].err = ""
    /\ (sfdiskRuns # <<>> /\ ~sfdiskRuns[Len(sfdiskRuns)].ok) => extPc = "fatal"
    /\ (moveCalls # <<>> /\ moveCalls[Len(moveCalls)].err # "") => extPc = "fatal"

C14_Extended ==
    /\ FailureIsLast
    /\ ExtendDone =>
          /\ table[ExtOEMPartNum].size = ExtTarget
          /\ table[ExtStatePartNum].start = table[ExtOEMPartNum].start + ExtTarget
          /\ NoOverlap(table)
          /\ Len(sfdiskRuns) = 3

\* No step changes the size of the stateful partition, or the start of the
\* OEM partition, and only a larger size is given to the OEM partition.
C14_Step ==
    extPc \in {"moveAway", "resize", "moveBack"} =>
        /\ ExtStatePartNum \in DOMAIN table =>
              table'[ExtStatePartNum].size = table[ExtStatePartNum].size
        /\ table'[ExtOEMPartNum].start = table[ExtOEMPartNum].start
        /\ table'[ExtOEMPartNum].size >= table[ExtOEMPartNum].size

InitPipeline == InitBuild \/ InitSeal

NextPipeline == NextBuild \/ NextSeal

SpecPipeline == InitPipeline /\ [][NextPipeline]_vars

\* The stages of Execute and of SealOEMPartition, in the order of the code.
BuildStages ==
    <<"start", "validate", "loadConfigs", "validateOEM", "archive", "imageExists",
      "inheritLabels", "buildImage", "deprecate", "returned">>
SealStages ==
    <<"loadVeritysetupImage", "unmountOEMPartition", "veritysetup",
      "mountEFIPartition", "GetPartUUID", "appendDMEntryToGRUB",
      "removeVeritysetupImage", "returned", "panicked">>

\* The place of a stage in the order.
Rank(stages, stage) == CHOOSE i \in DOMAIN stages : stages[i] = stage

\* preloader.BuildImage is reached only with validate and validateOEM passed
\* and nothing logged; an error ends Execute.
BuildFailFast ==
    /\ pc \in {"buildImage", "deprecate"} =>
          /\ validate(f) = Nil
          /\ Len(oemCalls) = 1
          /\ oemCalls[1].err = Nil
          /\ logged = Nil
    /\ (pc # "" /\ logged # Nil) => pc = "returned" /\ exitStatus = "ExitFailure"

\* appendDMEntryToGRUB is called only after the five steps before it, each
\* of which succeeded; an error ends SealOEMPartition.
SealFailFast ==
    /\ calls # <<>> =>
          /\ SubSeq(steps, 1, 6) = SubSeq(SealStages, 1, 6)
          /\ OEMPartition \notin mounted
          /\ VerityResult.err = ""
          /\ EFIPartition \in mounted
          /\ uuid \in PartUUIDs
    /\ sealErr \notin {"", SealNil} => sealPc = "returned"
    /\ \A i \in DOMAIN steps : steps[i] = SealStages[i]

\* Every step goes from a stage that has not returned to a later stage, and
\* grub.cfg is changed by no step but the call of appendDMEntryToGRUB.
C15_Step ==
    /\ buildVars' # buildVars =>
          pc # "returned" /\ Rank(BuildStages, pc') > Rank(BuildStages, pc)
    /\ (sealVars' # sealVars \/ grubVars' # grubVars) =>
          /\ sealPc \notin {"returned", "panicked"}
          /\ Rank(SealStages, sealPc') > Rank(SealStages, sealPc)
    /\ grub' # grub => sealPc = "appendDMEntryToGRUB"

\* C15: the pipelines are sequential and fail fast: Execute starts
\* preloader.BuildImage only after validate and validateOEM succeeded,
\* SealOEMPartition writes grub.cfg only after the image load, the unmount,
\* veritysetup, the EFI mount and the UUID read succeeded, and after the first
\* stage that fails no later stage runs.
C15_SequentialFailFast == [](BuildFailFast /\ SealFailFast) /\ [][C15_Step]_vars

\* Execute has built an image with an OEM size requested.
C15_Witness ==
    /\ pc = "deprecate"
    /\ oemCalls # <<>>
    /\ oemCalls[1].cfg.OEMSize # NoSize
    /\ oemCalls[1].err = Nil

(***************************************************************************)
(* validateOEM: the build configuration when it returns an error           *)
(***************************************************************************)

OEMRejected == Called /\ Returned # Nil

\* C16: when validateOEM returns an error, every field of the build
\* configuration, OEMSize and OEMFSSize4K among them, has the value it had
\* before the call, with and without sealing.
C16_RejectionKeepsConfig == OEMRejected => buildConfig = Given

\* Without sealing a rejection leaves the configuration as it was; with
\* sealing it leaves all of it but OEMFSSize4K, which holds the requested size
\* in 4K blocks when a size was requested.
C16_RejectionKeepsAllButFSSize ==
    OEMRejected =>
        /\ [buildConfig EXCEPT !.OEMFSSize4K = Given.OEMFSSize4K] = Given
        /\ ~Given.SealOEM => buildConfig = Given
        /\ (Given.SealOEM /\ SizeRequested) =>
              buildConfig.OEMFSSize4K = R.hi * 256 + R.lo \div 4096

(***************************************************************************)
(* Execute: the OEM size handed to the image build                         *)
(***************************************************************************)

\* Execute has reached preloader.BuildImage with an OEM size requested.
BuildsWithSize == pc \in {"buildImage", "deprecate"} /\ SizeRequested

\* The effective OEM size, in MiB.
EffectiveMiB == buildConfig.OEMSize.num.hi * MiB + buildConfig.OEMSize.num.lo

\* The size validate accepted is at least 16 MiB, the shrinking did not wrap,
\* and the effective size is a positive number of MiB below the partition
\* size P.
EffectiveSizeInRange ==
    /\ ~Less(R, MinOEMBytes)
    /\ buildConfig.OEMSize.unit = "M"
    /\ buildConfig.OEMSize.num.hi # Wrapped
    /\ EffectiveMiB >= 1
    /\ EffectiveMiB = P.hi - 1
    /\ Less(U64(EffectiveMiB, 0), P)

\* The effective size is within the disk beyond the 10 GB image.
EffectiveSizeFits == EffectiveMiB <= (buildConfig.DiskSize - imgSize) * 1024

\* C17: when Execute reaches the image build with an OEM size requested, the
\* size is at least 16 MiB, (bytes >> 20) - 1 did not underflow, and the
\* effective OEM size is a positive number of MiB, smaller than the partition
\* size of the disk-size check, that fits in the disk beyond the 10 GB image.
C17_EffectiveSizeFits ==
    BuildsWithSize => EffectiveSizeInRange /\ EffectiveSizeFits

\* The same, with the fit for the disk sizes that are not negative.
C17_EffectiveSizeFitsFromZero ==
    BuildsWithSize =>
        /\ EffectiveSizeInRange
        /\ buildConfig.DiskSize >= 0 => EffectiveSizeFits

====
